---- MODULE Spec2Model ----
(***************************************************************************)
(* Model of the solar charge controller websocket client (src/client.py): *)
(* the session of SolarControllerClient (websocket handle, client_id,     *)
(* connected flag), the transports it opens, and the operations connect,  *)
(* disconnect, send_command, the device operations, run and main; the     *)
(* interpreter _get_friendly_value on its own (InterpSpec); and the        *)
(* message_listener task next to a command (ListenerSpec).                 *)
(*                                                                         *)
(* Every await of the code ends in one of the outcomes the websockets     *)
(* library and asyncio.wait_for can produce (a value, a timeout, an        *)
(* error); the actions draw these outcomes with \E.                        *)
(***************************************************************************)
EXTENDS Integers, Sequences, FiniteSets, TLC

----------------------------------------------------------------------------
(* Bounds of the model *)

\* transports (websocket connections) the client may open in one behaviour
MaxTransports == 3
\* largest max_attempts argument passed to connect by a direct caller
MaxAttempts == 2
\* replies the server may still owe on the session's transport after command
\* timeouts
MaxLate == 1

\* entries of a definition list
MaxEntries == 2

----------------------------------------------------------------------------
(* Values *)

\* Python's None, for the client_id and JSON null
None == "None"
\* self.websocket = None
NoSocket == 0
\* default of connect's max_attempts parameter
DefaultMaxAttempts == 3

Transports == 1..MaxTransports

\* client ids a server may assign in its handshake (JSON null included)
ClientIds == {"c1", "c2", None}

\* The first frame the server sends.  kind "text" is a frame that is not JSON,
\* kind "array" a JSON document that is not an object, kind "object" a JSON
\* object with an optional code and an optional client_id.
HandshakeFrames ==
    {[kind |-> "text", has_code |-> FALSE, code |-> 0,
      has_client_id |-> FALSE, client_id |-> None],
     [kind |-> "array", has_code |-> FALSE, code |-> 0,
      has_client_id |-> FALSE, client_id |-> None]}
    \cup {[kind |-> "object", has_code |-> TRUE, code |-> 200,
           has_client_id |-> TRUE, client_id |-> i] : i \in ClientIds}
    \cup {[kind |-> "object", has_code |-> TRUE, code |-> 500,
           has_client_id |-> TRUE, client_id |-> "c1"],
          [kind |-> "object", has_code |-> TRUE, code |-> 200,
           has_client_id |-> FALSE, client_id |-> None],
          [kind |-> "object", has_code |-> FALSE, code |-> 0,
           has_client_id |-> TRUE, client_id |-> "c1"]}

NoFrame == [kind |-> "none", has_code |-> FALSE, code |-> 0,
            has_client_id |-> FALSE, client_id |-> None]

\* What the awaits of one connect attempt produce: the result of opening the
\* transport, of receiving the first frame, and whether the close call of the
\* invalid-handshake branch raises.
AttemptOutcomes ==
    {[open |-> op, recv |-> "none", frame |-> NoFrame, closeRaises |-> FALSE] :
        op \in {"timeout", "error"}}
    \cup {[open |-> "ok", recv |-> r, frame |-> NoFrame, closeRaises |-> FALSE] :
        r \in {"timeout", "error"}}
    \cup {[open |-> "ok", recv |-> "frame", frame |-> f, closeRaises |-> FALSE] :
        f \in HandshakeFrames}
    \cup {[open |-> "ok", recv |-> "frame", frame |-> f, closeRaises |-> TRUE] :
        f \in {g \in HandshakeFrames : g.kind = "object" /\ ~g.has_client_id}}

----------------------------------------------------------------------------
(* Transports *)

\* the transport the next successful websockets.connect returns
NextTid(st) ==
    CHOOSE t \in Transports :
        st[t] = "unopened" /\ \A u \in Transports : u < t => st[u] # "unopened"

CanOpen(st) == \E t \in Transports : st[t] = "unopened"

\* websocket.close(): the library tears the connection down whether or not the
\* call then reports an error, and closing a closed connection changes nothing
close(st, t) == [st EXCEPT ![t] = "closed"]

----------------------------------------------------------------------------
(* connect *)

\* json.loads(handshake) gives a dict with code == 200 and a client_id key
HandshakeOk(h) ==
    h.kind = "object" /\ h.has_code /\ h.code = 200 /\ h.has_client_id

\* the handshake is JSON and a dict, so that the if of line 108 is evaluated
HandshakeParsed(h) == h.kind = "object"

connect_accept_noid(s, h) == [s EXCEPT !.connected = TRUE]

\* lines 109-112: the handshake is accepted
connect_accept(s, h) ==
    [s EXCEPT !.client_id = h.client_id, !.connected = TRUE]

cleanup_keep(s, st) == [s |-> s, st |-> st]

\* lines 126-131: clean up after a failed attempt
cleanup(s, st) ==
    IF s.websocket # NoSocket
    THEN [s |-> [s EXCEPT !.websocket = NoSocket], st |-> close(st, s.websocket)]
    ELSE [s |-> s, st |-> st]

\* One iteration of the while loop of connect, lines 88-131, on session s and
\* transport table st with the outcomes o.  ok: the attempt returned True.
connect_attempt(s, st, o) ==
    LET t == NextTid(st)
        opened == o.open = "ok"
        \* lines 92-95: the handle is assigned only when the open succeeds
        s1 == IF opened THEN [s EXCEPT !.websocket = t] ELSE s
        st1 == IF opened THEN [st EXCEPT ![t] = "open"] ELSE st
        got == opened /\ o.recv = "frame"
        \* lines 113-118: invalid handshake, close and drop the handle; a
        \* close that raises leaves the handle to the clean-up
        invalid == got /\ HandshakeParsed(o.frame) /\ ~HandshakeOk(o.frame)
        st2 == IF invalid THEN close(st1, t) ELSE st1
        s2 == IF invalid /\ ~o.closeRaises
              THEN [s1 EXCEPT !.websocket = NoSocket] ELSE s1
        c == cleanup(s2, st2)
    IN  IF got /\ HandshakeOk(o.frame)
        THEN [ok |-> TRUE, s |-> connect_accept(s1, o.frame), st |-> st1,
              opened |-> {t}]
        ELSE [ok |-> FALSE, s |-> c.s, st |-> c.st,
              opened |-> IF opened THEN {t} ELSE {}]

backoff_always(attempt, max_attempts) == 1

\* lines 134-137: the waits made after the failed attempt number attempt
backoff(attempt, max_attempts) == IF attempt < max_attempts THEN 1 ELSE 0

----------------------------------------------------------------------------
(* disconnect *)

disconnect_noexcept(s, st, closeRaises) ==
    IF s.websocket # NoSocket
    THEN [s |-> [s EXCEPT !.connected = FALSE, !.client_id = None],
          st |-> close(st, s.websocket), raised |-> closeRaises]
    ELSE [s |-> s, st |-> st, raised |-> FALSE]

\* lines 145-155; an error of close is caught and logged, the finally clause
\* clears the flag and the client id, and the handle itself is kept
disconnect(s, st, closeRaises) ==
    IF s.websocket # NoSocket
    THEN [s |-> [s EXCEPT !.connected = FALSE, !.client_id = None],
          st |-> close(st, s.websocket), raised |-> FALSE]
    ELSE [s |-> s, st |-> st, raised |-> FALSE]

----------------------------------------------------------------------------
(* send_command *)

\* self.mac_address, fixed at construction
MacAddress == "m1"

NoParams == [k \in {} |-> 0]

\* the params a caller passes to send_command
ParamSets == {NoParams, [id |-> 35, value |-> 2], [mac |-> "m2"],
              [Action |-> "setPropertyData"]}

ActionNames == {"getMachinInfoOne", "getMachinInfoTwo", "setPropertyData"}

\* one property record of a data payload
Prop(id, has, v) == [property_id |-> id, has_value |-> has, value |-> v]

\* data payloads a reply may carry
DataLists ==
    {<< >>,
     <<Prop(37, TRUE, 0), Prop(35, TRUE, 2)>>,
     <<Prop(35, FALSE, 0)>>,
     <<Prop(2, TRUE, 5)>>,
     <<Prop(1, TRUE, 7)>>}

\* Reply frames: not JSON ("text"), a JSON array or number, or a JSON object
\* with an optional code and an optional data array.
Responses ==
    {[kind |-> k, has_code |-> FALSE, code |-> 0, has_data |-> FALSE,
      data |-> << >>] : k \in {"text", "array", "number"}}
    \cup {[kind |-> "object", has_code |-> TRUE, code |-> c, has_data |-> FALSE,
           data |-> << >>] : c \in {200, 500}}
    \cup {[kind |-> "object", has_code |-> FALSE, code |-> 0, has_data |-> FALSE,
           data |-> << >>]}
    \cup {[kind |-> "object", has_code |-> TRUE, code |-> 200,
           has_data |-> TRUE, data |-> d] : d \in DataLists}

NoResponse == [kind |-> "none", has_code |-> FALSE, code |-> 0,
               has_data |-> FALSE, data |-> << >>]

\* What the awaits of one send_command produce: the result of send, of recv,
\* and, for a frame, whether it is the late reply to an earlier command of
\* this transport that timed out.
SendOutcomes ==
    {[send |-> "error", recv |-> "none", frame |-> NoResponse, stale |-> FALSE]}
    \cup {[send |-> "ok", recv |-> r, frame |-> NoResponse, stale |-> FALSE] :
            r \in {"timeout", "error"}}
    \cup {[send |-> "ok", recv |-> "frame", frame |-> f, stale |-> b] :
            f \in Responses, b \in BOOLEAN}

NotConnected_handle_only(s) == s.websocket = NoSocket

\* line 171
NotConnected(s) == ~s.connected \/ s.websocket = NoSocket

\* lines 175-181: the command with params merged in and the mac defaulted
Envelope(action, params) ==
    LET c == [k \in {"Action"} \cup DOMAIN params |->
                 IF k \in DOMAIN params THEN params[k] ELSE action]
    IN  [k \in DOMAIN c \cup {"mac"} |-> IF k \in DOMAIN c THEN c[k] ELSE MacAddress]

\* the outcomes the transport of session s can produce
SendPossible(s, st, lt, o) ==
    IF s.websocket = NoSocket THEN TRUE
    ELSE /\ o.send = "ok" => st[s.websocket] = "open"
         /\ o.stale => lt > 0

\* lines 171-203.  err: "none" or the error raised; io: transport calls made;
\* tx: calls of websocket.send, and wire: the frame given to it; sent, recvd:
\* frames transmitted and consumed; frame: the frame consumed; lt: replies
\* owed afterwards.
send_command(s, st, lt, action, params, o) ==
    LET quiet == [err |-> "NotConnected", response |-> NoResponse, io |-> 0,
                  tx |-> 0, sent |-> 0, recvd |-> 0, wire |-> NoParams,
                  frame |-> NoResponse, stale |-> FALSE, lt |-> lt]
        cmd == Envelope(action, params)
        called == [quiet EXCEPT !.tx = 1, !.wire = cmd]
        got == [called EXCEPT !.io = 2, !.sent = 1, !.recvd = 1,
                              !.frame = o.frame, !.stale = o.stale]
    IN  IF NotConnected(s) THEN quiet
        ELSE IF o.send # "ok"
        THEN [called EXCEPT !.err = "CommandError", !.io = 1]
        ELSE IF o.recv = "timeout"
        THEN [called EXCEPT !.err = "Timeout", !.io = 2, !.sent = 1,
                 !.lt = IF lt < MaxLate THEN lt + 1 ELSE lt]
        ELSE IF o.recv = "error"
        THEN [called EXCEPT !.err = "CommandError", !.io = 2, !.sent = 1]
        ELSE IF o.frame.kind = "text"
        THEN [got EXCEPT !.err = "CommandError"]
        ELSE [got EXCEPT !.err = "none", !.response = o.frame]

----------------------------------------------------------------------------
(* Device operations *)

set_charge_mode_any_reply(r) == r.err = "none"

\* lines 369-385: True iff a reply arrived, is a dict and has code == 200
set_charge_mode(r) ==
    r.err = "none" /\ r.response.kind = "object"
    /\ r.response.has_code /\ r.response.code = 200

EmptyDict == [kind |-> "object", has_code |-> FALSE, code |-> 0,
              has_data |-> FALSE, data |-> << >>]

\* lines 394-398: the reply, or {} when send_command raised
get_machine_info(r) == IF r.err = "none" THEN r.response ELSE EmptyDict

\* index of the first record of data with the given property id, 0 if none
RECURSIVE FirstWithId(_, _, _)
FirstWithId(data, id, i) ==
    IF i > Len(data) THEN 0
    ELSE IF data[i].property_id = id THEN i
    ELSE FirstWithId(data, id, i + 1)

\* lines 407-424 and 433-448: the value of the first record with the id, None
\* when the reply has no data, no such record, or the record has no value
\* (a reply that is no dict raises or has no "data", which gives None too)
get_property(resp, id) ==
    LET i == IF resp.kind = "object" /\ resp.has_data
             THEN FirstWithId(resp.data, id, 1) ELSE 0
    IN  IF i = 0 \/ ~resp.data[i].has_value
        THEN [is_none |-> TRUE, value |-> 0]
        ELSE [is_none |-> FALSE, value |-> resp.data[i].value]

get_charge_mode(r) == get_property(get_machine_info(r), 35)

get_load_state(r) == get_property(get_machine_info(r), 37)

RECURSIVE InsertById_before_equal(_, _)
InsertById_before_equal(sorted, x) ==
    IF sorted = << >> THEN <<x>>
    ELSE IF Head(sorted).property_id < x.property_id
    THEN <<Head(sorted)>> \o InsertById_before_equal(Tail(sorted), x)
    ELSE <<x>> \o sorted

\* list.sort(key=property_id) is stable: an insertion after every record whose
\* key is not larger
RECURSIVE InsertById(_, _)
InsertById(sorted, x) ==
    IF sorted = << >> THEN <<x>>
    ELSE IF Head(sorted).property_id <= x.property_id
    THEN <<Head(sorted)>> \o InsertById(Tail(sorted), x)
    ELSE <<x>> \o sorted

RECURSIVE SortById(_)
SortById(list) ==
    IF list = << >> THEN << >>
    ELSE InsertById(SortById(SubSeq(list, 1, Len(list) - 1)), list[Len(list)])

\* the "data" of a reply that is a dict or an array, lines 219-222
DataOf(resp) == IF resp.kind = "object" /\ resp.has_data THEN resp.data ELSE << >>

get_all_machine_info_partial(r1, r2) ==
    IF r1.err # "none" \/ r1.response.kind = "number" THEN << >>
    ELSE IF r2.err # "none" \/ r2.response.kind = "number"
    THEN SortById(DataOf(r1.response))
    ELSE SortById(DataOf(r1.response) \o DataOf(r2.response))

\* lines 212-230 on the results of the two send_command calls; r2 is looked at
\* only when the first call returned.  A reply that is a JSON number makes
\* the "in" test raise, which gives [] like every other exception.
get_all_machine_info(r1, r2) ==
    IF r1.err # "none" \/ r2.err # "none" THEN << >>
    ELSE IF r1.response.kind = "number" \/ r2.response.kind = "number" THEN << >>
    ELSE SortById(DataOf(r1.response) \o DataOf(r2.response))

\* lines 236-279: nothing is returned; an exception leaves the function only
\* when the output stream is broken, so that the print of the handler at
\* line 279 raises as well
get_formatted_info_raises(combined, printOk) == ~printOk

----------------------------------------------------------------------------
(* _get_friendly_value *)

\* JSON values: null or an absent key ("none"), a number, a string
RawNone == [t |-> "none", n |-> 0, s |-> ""]

Num(n) == [t |-> "int", n |-> n, s |-> ""]

Txt(s) == [t |-> "str", n |-> 0, s |-> s]

\* str(v), which is also how an f-string formats v
str(v) == IF v.t = "int" THEN ToString(v.n)
          ELSE IF v.t = "str" THEN v.s
          ELSE "None"

\* bool(v)
Truthy(v) == (v.t = "int" /\ v.n # 0) \/ (v.t = "str" /\ v.s # "")

\* the "value" of the items handed to the interpreter
RawValues == {RawNone, Num(0), Num(1), Txt("1"), Num(2), Num(25)}

\* the "unikey" of the items; "" is an absent key
Unikeys == {"temperature", "dianya", ""}

\* the Chinese unit marker of line 338 (the two characters U+5355 U+4F4D),
\* written in ASCII
UnitZh == "dan-wei"

\* a key of a descriptor that is absent
Absent == [k |-> "absent", v |-> RawNone]

\* a key of a descriptor that is present, with a JSON value
Present(v) == [k |-> "present", v |-> v]

\* option.get(key)
Get(field) == field.v

\* one entry of a parsed definition: a dict with optional value, en_title and
\* title, or something that is no dict
Descriptor(value, en_title, title) ==
    [dict |-> TRUE, value |-> value, en_title |-> en_title, title |-> title]

NonDict == [dict |-> FALSE, value |-> Absent, en_title |-> Absent, title |-> Absent]

\* the titles the descriptors of the value v carry
EnTitleOf(v) == IF v = "0" THEN "OFF" ELSE IF v = "1" THEN "ON" ELSE "Timing"

TitleOf(v) == IF v = "0" THEN "Closed" ELSE IF v = "1" THEN "Open" ELSE "Timer"

\* the entries definitions are made of: option descriptors with an English
\* title, a generic title, both (the English one empty or null) or none; an
\* option with a numeric value; unit descriptors; an entry that is no dict
Entries ==
    {Descriptor(Present(Txt(v)), Present(Txt(EnTitleOf(v))), Absent) :
        v \in {"0", "1", "2"}}
    \cup {Descriptor(Present(Txt(v)), Absent, Present(Txt(TitleOf(v)))) :
            v \in {"0", "1", "2"}}
    \cup {Descriptor(Present(Txt(v)), Absent, Absent) : v \in {"0", "1", "2"}}
    \cup {Descriptor(Present(Txt(v)), Present(Txt("")), Present(Txt(TitleOf(v)))) :
            v \in {"0", "1", "2"}}
    \cup {Descriptor(Present(Txt(v)), Present(RawNone), Present(Txt(TitleOf(v)))) :
            v \in {"0", "1", "2"}}
    \cup {Descriptor(Present(Num(1)), Present(Txt("ON")), Absent)}
    \cup {Descriptor(Present(Txt("C")), Absent, Present(Txt("unit"))),
          Descriptor(Present(Txt("V")), Absent, Present(Txt(UnitZh))),
          Descriptor(Present(Txt("")), Absent, Present(Txt("unit")))}
    \cup {NonDict}

\* lists of at most n entries
RECURSIVE ListsUpTo(_)
ListsUpTo(n) ==
    IF n = 0 THEN {<< >>}
    ELSE LET shorter == ListsUpTo(n - 1)
         IN  shorter \cup {Append(l, e) : l \in {x \in shorter : Len(x) = n - 1},
                                          e \in Entries}

\* the "definition" of an item: absent, the empty string, text that is not
\* JSON, or the JSON text of a number, of an object or of a list
Definitions ==
    {[kind |-> k, entries |-> << >>] :
        k \in {"absent", "empty", "text", "number", "object"}}
    \cup {[kind |-> "list", entries |-> l] : l \in ListsUpTo(MaxEntries)}

Items == [value : RawValues, definition : Definitions, unikey : Unikeys]

\* line 307: a list all of whose entries are dicts
IsEnum(definition) ==
    definition.kind = "list"
    /\ \A i \in 1..Len(definition.entries) : definition.entries[i].dict

\* lines 309-310
IsBinary(options) ==
    /\ Len(options) = 2
    /\ \E i \in 1..2 : str(Get(options[i].value)) = "0"
    /\ \E i \in 1..2 : str(Get(options[i].value)) = "1"

\* lines 313 and 325
Matches(option, raw_value) == str(Get(option.value)) = str(raw_value)

\* a or b, on two JSON values
Or(a, b) == IF Truthy(a) THEN a ELSE b

binary_status_other_default(option, raw_value) ==
    str(Or(Or(Get(option.en_title), Get(option.title)),
           Txt(IF raw_value = Num(1) \/ raw_value = Txt("1") THEN "OFF" ELSE "ON")))

\* lines 314-321: the status shown for the matching option of a binary pair
binary_status(option, raw_value) ==
    str(Or(Or(Get(option.en_title), Get(option.title)),
           Txt(IF raw_value = Num(1) \/ raw_value = Txt("1") THEN "ON" ELSE "OFF")))

\* "{label} ({raw_value})"
Labelled(label, raw_value) == label \o " (" \o str(raw_value) \o ")"

\* lines 312-321: the loop over a binary pair; "returned" is false when it
\* ends without a match
RECURSIVE binary_scan(_, _, _)
binary_scan(options, raw_value, i) ==
    IF i > Len(options) THEN [returned |-> FALSE, display |-> ""]
    ELSE IF Matches(options[i], raw_value)
    THEN [returned |-> TRUE,
          display |-> Labelled(binary_status(options[i], raw_value), raw_value)]
    ELSE binary_scan(options, raw_value, i + 1)

\* lines 324-333: the loop over the options of an enum; a matching option
\* without en_title and title is passed over
RECURSIVE enum_scan(_, _, _)
enum_scan(options, raw_value, i) ==
    IF i > Len(options) THEN str(raw_value)
    ELSE IF Matches(options[i], raw_value) /\ options[i].en_title.k = "present"
    THEN Labelled(str(Get(options[i].en_title)), raw_value)
    ELSE IF Matches(options[i], raw_value) /\ options[i].title.k = "present"
    THEN Labelled(str(Get(options[i].title)), raw_value)
    ELSE enum_scan(options, raw_value, i + 1)

\* lines 336-339: the unit after the entries up to i have been looked at
RECURSIVE unit_scan(_, _)
unit_scan(entries, i) ==
    IF i = 0 THEN Txt("")
    ELSE IF entries[i].dict /\ Get(entries[i].title) \in {Txt(UnitZh), Txt("unit")}
    THEN IF entries[i].value.k = "present" THEN Get(entries[i].value) ELSE Txt("")
    ELSE unit_scan(entries, i - 1)

\* lines 341-353
with_unit(raw_value, unit, unikey) ==
    IF ~Truthy(unit) THEN str(raw_value)
    ELSE IF unikey = "temperature" THEN str(raw_value) \o " °C"
    ELSE str(raw_value) \o " " \o str(unit)

fallback_empty(raw_value) == ""

\* lines 298 and 304: the display when there is no definition to use
fallback(raw_value) == str(raw_value)

\* lines 291-357
get_friendly_value(item) ==
    LET raw_value == item.value
        definition == item.definition
    IN  IF definition.kind \in {"absent", "empty"} THEN fallback(raw_value)
        ELSE IF definition.kind = "text" THEN fallback(raw_value)
        ELSE IF IsEnum(definition)
        THEN LET b == IF IsBinary(definition.entries)
                      THEN binary_scan(definition.entries, raw_value, 1)
                      ELSE [returned |-> FALSE, display |-> ""]
             IN  IF b.returned THEN b.display
                 ELSE enum_scan(definition.entries, raw_value, 1)
        \* iterating over a number raises; the handler of line 357 formats
        \* item.get("value", "")
        ELSE IF definition.kind = "number"
        THEN IF raw_value = RawNone THEN "" ELSE str(raw_value)
        \* iterating over an object yields its keys, none of which is a dict
        ELSE IF definition.kind = "object" THEN str(raw_value)
        ELSE with_unit(raw_value,
                       unit_scan(definition.entries, Len(definition.entries)),
                       item.unikey)

----------------------------------------------------------------------------
(* run and main *)

\* argparse choices of --command, line 526
Choices == {"get-info", "set-charge-mode", "get-charge-mode", "get-load-state"}

\* command names given to run or on the command line; "" is an absent --command
CommandNames == Choices \cup {"bogus", ""}

\* --value: absent, or an integer
RunValues == {[has |-> FALSE, v |-> 0], [has |-> TRUE, v |-> 1],
              [has |-> TRUE, v |-> 2]}

\* lines 493-508: the dispatch of run on the connected session.  operation:
\* the device operation called ("none" for the else branch); result: the value
\* of the local result; raised: an exception left the operation; sends: the
\* send_command calls made; failed: one of them raised; calls: what each of
\* them gave to the transport and consumed; lt: replies owed after.
Call(r) == [tx |-> r.tx, wire |-> r.wire, recvd |-> r.recvd, frame |-> r.frame]

dispatch(s, st, lt, command, val, o1, o2, printOk) ==
    LET none == [operation |-> "none", result |-> FALSE, raised |-> FALSE,
                 sends |-> 0, frames |-> 0, failed |-> FALSE, calls |-> << >>,
                 lt |-> lt]
    IN  IF command = "set-charge-mode" /\ val.has
        THEN LET r == send_command(s, st, lt, "setPropertyData",
                                   [id |-> 35, value |-> val.v], o1)
             IN  [none EXCEPT !.operation = "set_charge_mode",
                     !.result = set_charge_mode(r), !.sends = 1,
                     !.frames = r.sent, !.failed = r.err # "none",
                     !.calls = <<Call(r)>>, !.lt = r.lt]
        ELSE IF command = "get-charge-mode"
        THEN LET r == send_command(s, st, lt, "getMachinInfoTwo", NoParams, o1)
             IN  [none EXCEPT !.operation = "get_charge_mode",
                     !.result = ~get_charge_mode(r).is_none, !.sends = 1,
                     !.frames = r.sent, !.failed = r.err # "none",
                     !.calls = <<Call(r)>>, !.lt = r.lt]
        ELSE IF command = "get-load-state"
        THEN LET r == send_command(s, st, lt, "getMachinInfoTwo", NoParams, o1)
             IN  [none EXCEPT !.operation = "get_load_state",
                     !.result = ~get_load_state(r).is_none, !.sends = 1,
                     !.frames = r.sent, !.failed = r.err # "none",
                     !.calls = <<Call(r)>>, !.lt = r.lt]
        ELSE IF command = "get-info"
        THEN LET r1 == send_command(s, st, lt, "getMachinInfoOne", NoParams, o1)
                 second == r1.err = "none"
                 r2 == send_command(s, st, r1.lt, "getMachinInfoTwo", NoParams, o2)
                 combined == get_all_machine_info(r1, r2)
                 raises == get_formatted_info_raises(combined, printOk)
             IN  [none EXCEPT !.operation = "get_formatted_info",
                     !.result = ~raises, !.raised = raises,
                     !.sends = IF second THEN 2 ELSE 1,
                     !.frames = r1.sent + (IF second THEN r2.sent ELSE 0),
                     !.failed = r1.err # "none" \/ (second /\ r2.err # "none"),
                     !.calls = IF second THEN <<Call(r1), Call(r2)>>
                               ELSE <<Call(r1)>>,
                     !.lt = IF second THEN r2.lt ELSE r1.lt]
        ELSE none

ArgsAccepted_any(command) == command # ""

\* lines 526, 533 and 542-543: parse_args rejects a --command outside the
\* choices, and main rejects an absent one, with exit status 2
ArgsAccepted(command) == command \in Choices

----------------------------------------------------------------------------
(* State *)

VARIABLES
    s,          \* the session: websocket (handle or NoSocket), client_id, connected
    status,     \* per transport: "unopened", "open" or "closed"
    late,       \* replies the server still owes on the session's open
                \* transport for commands that timed out
    pc,         \* position of the single task of control
    mode,       \* "init", "api" (the class is driven directly), "cli" (main), "exited"
    conn,       \* the connect call in progress: its locals attempt and
                \* max_attempts, the attempts and backoff waits made, the
                \* transports opened, the frame the latest attempt received
    run,        \* the run call in progress or returned last: its arguments,
                \* the calls it made and their results
    last,       \* the operation that returned last, and how; again: the
                \* operation that returned before it was the same one; calls,
                \* data: what the send_command calls of get_all_machine_info
                \* did and the list it returns, until its caller resumes;
                \* action, params, tx, wire: the arguments of a send_command
                \* call and what it gave to websocket.send, until then too
    exitCode,   \* status the process exited with, -1 while it runs
    friendly,   \* a call of _get_friendly_value: its item, whether it has
                \* returned, and the string it returned
    listener    \* self.running, the position of the message_listener task,
                \* and where the reply to the command in flight is

vars == <<s, status, late, pc, mode, conn, run, last, exitCode, friendly, listener>>

\* what the operations of the session leave alone
others == <<friendly, listener>>

NoConn == [attempt |-> 0, max_attempts |-> 0, attempts |-> 0, sleeps |-> 0,
           opened |-> {}, result |-> "none", frame |-> NoFrame, by |-> "none"]

NoRun == [command |-> "", val |-> [has |-> FALSE, v |-> 0], connects |-> 0,
          connect_ok |-> FALSE, dispatches |-> 0, operation |-> "none", disconnects |-> 0,
          sends |-> 0, frames |-> 0, failed |-> FALSE, raised |-> FALSE,
          result |-> FALSE, calls |-> << >>]

NoLast == [op |-> "none", again |-> FALSE, ok |-> FALSE, err |-> "none", io |-> 0,
           sent |-> 0, recvd |-> 0, stale |-> FALSE, calls |-> << >>,
           data |-> << >>, action |-> "", params |-> NoParams, tx |-> 0,
           wire |-> NoParams]

NoItem == [value |-> RawNone, definition |-> [kind |-> "absent", entries |-> << >>],
           unikey |-> ""]

NoFriendly == [item |-> NoItem, returned |-> FALSE, display |-> ""]

\* line 72, and no listener task
NoListener == [running |-> FALSE, pc |-> "none", reply |-> "none"]

\* __init__, lines 61-72
SessionInit ==
    /\ s = [websocket |-> NoSocket, client_id |-> None, connected |-> FALSE]
    /\ status = [t \in Transports |-> "unopened"]
    /\ late = 0
    /\ pc = "idle"
    /\ mode = "init"
    /\ conn = NoConn
    /\ run = NoRun
    /\ last = NoLast
    /\ exitCode = -1

Init ==
    /\ SessionInit
    /\ friendly = NoFriendly
    /\ listener = NoListener

\* Replies owed once the session and the transports have become s2 and st2:
\* they are owed on the open transport the session holds, and none is owed
\* on a transport that was just opened, or closed, or dropped.
LateAfter(s2, st2) ==
    IF s2.websocket # NoSocket /\ s2.websocket = s.websocket
       /\ st2[s2.websocket] = "open"
    THEN late ELSE 0

\* the class is used directly by a caller that serialises its calls
ApiIdle == pc = "idle" /\ mode \in {"init", "api"}

Returned(op, ok, err) ==
    [NoLast EXCEPT !.op = op, !.again = (last.op = op), !.ok = ok, !.err = err]

\* lines 86-87: the locals of a connect call
StartConnect(m, by) ==
    [NoConn EXCEPT !.attempt = 1, !.max_attempts = m, !.result = "pending",
                   !.by = by]

----------------------------------------------------------------------------
(* Actions *)

\* a caller awaits connect(max_attempts = m)
Connect(m) ==
    /\ ApiIdle
    /\ mode' = "api"
    /\ conn' = StartConnect(m, "api")
    /\ pc' = "connecting"
    /\ run' = NoRun
    /\ last' = NoLast
    /\ UNCHANGED <<s, status, late, exitCode>>
    /\ UNCHANGED others

\* one iteration of the loop of connect, lines 87-139
ConnectAttempt ==
    /\ pc = "connecting"
    /\ conn.attempt <= conn.max_attempts
    /\ \E o \in AttemptOutcomes :
        /\ o.open = "ok" => CanOpen(status)
        /\ LET r == connect_attempt(s, status, o)
           IN  /\ s' = r.s
               /\ status' = r.st
               /\ late' = LateAfter(r.s, r.st)
               /\ IF r.ok
                  THEN /\ conn' = [conn EXCEPT !.attempts = @ + 1,
                                      !.opened = @ \cup r.opened,
                                      !.result = "ok", !.frame = o.frame]
                       /\ pc' = "connect_done"
                  ELSE /\ conn' = [conn EXCEPT !.attempts = @ + 1,
                                      !.opened = @ \cup r.opened,
                                      !.frame = o.frame,
                                      !.sleeps = @ + backoff(conn.attempt,
                                                             conn.max_attempts),
                                      !.attempt = @ + 1]
                       /\ pc' = "connecting"
    /\ UNCHANGED <<mode, run, last, exitCode>>
    /\ UNCHANGED others

\* lines 141-143: the loop ends without a success
ConnectGiveUp ==
    /\ pc = "connecting"
    /\ conn.attempt > conn.max_attempts
    /\ conn' = [conn EXCEPT !.result = "fail"]
    /\ pc' = "connect_done"
    /\ UNCHANGED <<s, status, late, mode, run, last, exitCode>>
    /\ UNCHANGED others

\* connect returns to a direct caller
ConnectReturn ==
    /\ pc = "connect_done"
    /\ conn.by = "api"
    /\ last' = Returned("connect", conn.result = "ok", "none")
    /\ conn' = NoConn
    /\ pc' = "idle"
    /\ UNCHANGED <<s, status, late, mode, run, exitCode>>
    /\ UNCHANGED others

\* a caller awaits disconnect(), lines 145-155
Disconnect ==
    /\ ApiIdle
    /\ mode' = "api"
    /\ \E closeRaises \in BOOLEAN :
        LET d == disconnect(s, status, closeRaises)
        IN  /\ s' = d.s
            /\ status' = d.st
            /\ late' = LateAfter(d.s, d.st)
            /\ last' = Returned("disconnect", ~d.raised,
                                IF d.raised THEN "CloseError" ELSE "none")
    /\ run' = NoRun
    /\ UNCHANGED <<pc, conn, exitCode>>
    /\ UNCHANGED others

\* a caller awaits send_command(action, params), lines 157-203
SendCommand ==
    /\ ApiIdle
    /\ mode' = "api"
    /\ \E action \in ActionNames, params \in ParamSets, o \in SendOutcomes :
        /\ SendPossible(s, status, late, o)
        \* no outcome is drawn when the call makes no transport call
        /\ NotConnected(s) => o.send = "error"
        /\ LET r == send_command(s, status, late, action, params, o)
           IN  /\ late' = r.lt
               /\ last' = [Returned("send_command", r.err = "none", r.err)
                              EXCEPT !.io = r.io, !.sent = r.sent,
                                     !.recvd = r.recvd, !.stale = r.stale,
                                     !.action = action, !.params = params,
                                     !.tx = r.tx, !.wire = r.wire]
    /\ run' = NoRun
    /\ pc' = "send_done"
    /\ UNCHANGED <<s, status, conn, exitCode>>
    /\ UNCHANGED others

\* the caller of send_command resumes with the reply or the error
SendCommandReturn ==
    /\ pc = "send_done"
    /\ last' = [last EXCEPT !.action = "", !.params = NoParams, !.tx = 0,
                            !.wire = NoParams]
    /\ pc' = "idle"
    /\ UNCHANGED <<s, status, late, mode, conn, run, exitCode>>
    /\ UNCHANGED others

\* a caller awaits get_all_machine_info(), lines 205-230.  Whether a frame is
\* a late reply makes no difference to it.
GetAllMachineInfo ==
    /\ ApiIdle
    /\ mode' = "api"
    /\ \E o1 \in SendOutcomes, o2 \in SendOutcomes :
        /\ SendPossible(s, status, late, o1)
        /\ SendPossible(s, status, late, o2)
        /\ ~o1.stale /\ ~o2.stale
        /\ NotConnected(s) => o1.send = "error"
        \* the second call exists only when the first returned
        /\ (o1.recv # "frame" \/ o1.frame.kind = "text") => o2 = o1
        /\ LET r1 == send_command(s, status, late, "getMachinInfoOne", NoParams, o1)
               second == r1.err = "none"
               r2 == send_command(s, status, r1.lt, "getMachinInfoTwo", NoParams, o2)
           IN  /\ late' = IF second THEN r2.lt ELSE r1.lt
               /\ last' = [Returned("get_all_machine_info", TRUE, "none") EXCEPT
                              !.calls = IF second THEN <<Call(r1), Call(r2)>>
                                        ELSE <<Call(r1)>>,
                              !.data = get_all_machine_info(r1, r2)]
    /\ run' = NoRun
    /\ pc' = "info_done"
    /\ UNCHANGED <<s, status, conn, exitCode>>
    /\ UNCHANGED others

\* the caller of get_all_machine_info resumes with the list
GetAllMachineInfoReturn ==
    /\ pc = "info_done"
    /\ last' = [last EXCEPT !.calls = << >>, !.data = << >>]
    /\ pc' = "idle"
    /\ UNCHANGED <<s, status, late, mode, conn, run, exitCode>>
    /\ UNCHANGED others

\* run returns its result to its caller; main turns it into the exit status,
\* lines 545-546
RunReturn(result) ==
    /\ last' = Returned("run", result, "none")
    /\ IF mode = "cli"
       THEN /\ pc' = "exited"
            /\ mode' = "exited"
            /\ exitCode' = IF result THEN 0 ELSE 1
       ELSE /\ pc' = "idle"
            /\ UNCHANGED <<mode, exitCode>>

\* lines 487-489: run starts and calls connect() with its defaults
StartRun(command, val) ==
    /\ run' = [NoRun EXCEPT !.command = command, !.val = val, !.connects = 1]
    /\ conn' = StartConnect(DefaultMaxAttempts, "run")
    /\ pc' = "connecting"

\* a caller awaits run(command, value)
Run(command, val) ==
    /\ ApiIdle
    /\ mode' = "api"
    /\ StartRun(command, val)
    /\ last' = NoLast
    /\ UNCHANGED <<s, status, late, exitCode>>
    /\ UNCHANGED others

\* lines 489-490: connect failed, run returns False
RunConnectFailed ==
    /\ pc = "connect_done"
    /\ conn.by = "run"
    /\ conn.result = "fail"
    /\ run' = [run EXCEPT !.result = FALSE]
    /\ RunReturn(FALSE)
    /\ conn' = NoConn
    /\ UNCHANGED <<s, status, late>>
    /\ UNCHANGED others

\* lines 493-508: connect succeeded, run executes the command
RunDispatch ==
    /\ pc = "connect_done"
    /\ conn.by = "run"
    /\ conn.result = "ok"
    /\ \E o1 \in SendOutcomes, o2 \in SendOutcomes, printOk \in BOOLEAN :
        /\ SendPossible(s, status, late, o1)
        /\ SendPossible(s, status, late, o2)
        \* the second call and the output exist only for get-info, and the
        \* second call only when the first returned
        /\ run.command # "get-info" => (o2 = o1 /\ printOk)
        /\ (o1.recv # "frame" \/ o1.frame.kind = "text") => o2 = o1
        /\ LET d == dispatch(s, status, late, run.command, run.val, o1, o2, printOk)
           IN  /\ late' = d.lt
               /\ run' = [run EXCEPT
                             !.connect_ok = TRUE,
                             !.dispatches = IF d.operation = "none" THEN @ ELSE @ + 1,
                             !.operation = d.operation, !.sends = d.sends,
                             !.frames = d.frames, !.failed = d.failed,
                             !.raised = d.raised, !.result = d.result,
                             !.calls = d.calls]
    /\ conn' = NoConn
    /\ pc' = "run_disconnect"
    /\ UNCHANGED <<s, status, mode, last, exitCode>>
    /\ UNCHANGED others

\* lines 510-517: disconnect, on the normal path and in the handler, and return
RunDisconnect ==
    /\ pc = "run_disconnect"
    /\ \E closeRaises \in BOOLEAN :
        LET d == disconnect(s, status, closeRaises)
        IN  /\ s' = d.s
            /\ status' = d.st
            /\ late' = LateAfter(d.s, d.st)
    /\ run' = [run EXCEPT !.disconnects = @ + 1, !.calls = << >>,
                          !.result = IF run.raised THEN FALSE ELSE @]
    /\ RunReturn(IF run.raised THEN FALSE ELSE run.result)
    /\ UNCHANGED conn
    /\ UNCHANGED others

\* main, lines 519-546: the arguments are parsed, the client is constructed
\* and run is awaited; a rejected --command ends the process with status 2
Main(command, val) ==
    /\ pc = "idle"
    /\ mode = "init"
    /\ IF ArgsAccepted(command)
       THEN /\ mode' = "cli"
            /\ StartRun(command, val)
            /\ UNCHANGED <<s, status, late, last, exitCode>>
       ELSE /\ mode' = "exited"
            /\ pc' = "exited"
            /\ exitCode' = 2
            /\ run' = [NoRun EXCEPT !.command = command, !.val = val]
            /\ UNCHANGED <<s, status, late, conn, last>>
    /\ UNCHANGED others

Next ==
    \/ \E m \in 0..MaxAttempts : Connect(m)
    \/ ConnectAttempt
    \/ ConnectGiveUp
    \/ ConnectReturn
    \/ Disconnect
    \/ SendCommand
    \/ SendCommandReturn
    \/ GetAllMachineInfo
    \/ GetAllMachineInfoReturn
    \/ \E c \in CommandNames, v \in RunValues : Run(c, v)
    \/ RunConnectFailed
    \/ RunDispatch
    \/ RunDisconnect
    \/ \E c \in CommandNames, v \in RunValues : Main(c, v)

Spec == Init /\ [][Next]_vars

----------------------------------------------------------------------------
(* The interpreter on its own: every item, one call *)

InterpInit ==
    /\ SessionInit
    /\ listener = NoListener
    /\ \E item \in Items : friendly = [NoFriendly EXCEPT !.item = item]

\* _get_friendly_value(item) is called and returns, lines 281-357
GetFriendlyValue ==
    /\ ~friendly.returned
    /\ friendly' = [friendly EXCEPT !.returned = TRUE,
                                    !.display = get_friendly_value(friendly.item)]
    /\ UNCHANGED <<s, status, late, pc, mode, conn, run, last, exitCode, listener>>

InterpNext == GetFriendlyValue

InterpSpec == InterpInit /\ [][InterpNext]_vars

----------------------------------------------------------------------------
(* The listener task next to a command *)

\* The tasks of one event loop take turns at their awaits.  recv() of the
\* websockets library raises when it is called while another task waits in
\* recv() of the same connection; a frame that arrives goes to the task that
\* waits.  pc = "cmd_send": the command is suspended in websocket.send;
\* pc = "cmd_recv": it waits in websocket.recv.

\* connect is awaited before there is a listener
ListenerConnect(m) ==
    /\ listener.pc = "none"
    /\ Connect(m)

\* a caller sets self.running and creates the message_listener task on the
\* connected session (no code of the file does either)
StartListener ==
    /\ ApiIdle
    /\ listener.pc = "none"
    /\ ~NotConnected(s)
    /\ status[s.websocket] = "open"
    /\ listener' = [running |-> TRUE, pc |-> "ready", reply |-> "none"]
    /\ UNCHANGED <<s, status, late, pc, mode, conn, run, last, exitCode, friendly>>

\* lines 452-455 and 459-463: the listener calls recv, and leaves its loop
\* when the call raises
listener_recv(lis, position) ==
    IF ~lis.running THEN [lis EXCEPT !.pc = "done"]
    ELSE IF position = "cmd_recv" THEN [lis EXCEPT !.pc = "done"]
    ELSE [lis EXCEPT !.pc = "recv"]

\* the listener task runs for the first time, while the other task is at an
\* await
ListenerRecv ==
    /\ listener.pc = "ready"
    /\ pc \in {"idle", "cmd_send", "cmd_recv"}
    /\ listener' = listener_recv(listener, pc)
    /\ UNCHANGED <<s, status, late, pc, mode, conn, run, last, exitCode, friendly>>

\* a caller awaits send_command: lines 171-187, up to the await of send
CmdSend ==
    /\ ApiIdle
    /\ listener.pc # "none"
    /\ IF NotConnected(s)
       THEN /\ last' = Returned("send_command", FALSE, "NotConnected")
            /\ UNCHANGED pc
       ELSE /\ last' = NoLast
            /\ pc' = "cmd_send"
    /\ listener' = [listener EXCEPT !.reply = "none"]
    /\ run' = NoRun
    /\ UNCHANGED <<s, status, late, mode, conn, exitCode, friendly>>

\* lines 187-193 and 202-203: send returns or raises; after a send the
\* command calls recv, which raises when the listener waits in recv
CmdRecv ==
    /\ pc = "cmd_send"
    /\ \E sendOk \in BOOLEAN :
         IF ~sendOk
         THEN /\ last' = [Returned("send_command", FALSE, "CommandError")
                             EXCEPT !.io = 1, !.tx = 1]
              /\ pc' = "idle"
              /\ UNCHANGED listener
         ELSE IF listener.pc = "recv"
         THEN /\ last' = [Returned("send_command", FALSE, "CommandError")
                             EXCEPT !.io = 2, !.tx = 1, !.sent = 1]
              /\ pc' = "idle"
              /\ listener' = [listener EXCEPT !.reply = "owed"]
         ELSE /\ pc' = "cmd_recv"
              /\ listener' = [listener EXCEPT !.reply = "owed"]
              /\ UNCHANGED last
    /\ UNCHANGED <<s, status, late, mode, conn, run, exitCode, friendly>>

\* lines 190-201: no frame arrives within COMMAND_TIMEOUT
CmdTimeout ==
    /\ pc = "cmd_recv"
    /\ last' = [Returned("send_command", FALSE, "Timeout")
                   EXCEPT !.io = 2, !.tx = 1, !.sent = 1]
    /\ pc' = "idle"
    /\ UNCHANGED <<s, status, late, mode, conn, run, exitCode, friendly, listener>>

\* the reply to the command arrives and is consumed by the task that waits
\* in recv: the command (lines 190-198), or the listener (lines 455-457),
\* which goes on to its next recv
ReplyArrives ==
    /\ listener.reply = "owed"
    /\ IF pc = "cmd_recv"
       THEN /\ last' = [Returned("send_command", TRUE, "none")
                           EXCEPT !.io = 2, !.tx = 1, !.sent = 1, !.recvd = 1]
            /\ pc' = "idle"
            /\ listener' = [listener EXCEPT !.reply = "command"]
       ELSE /\ listener.pc = "recv"
            /\ listener' = [listener_recv(listener, pc) EXCEPT !.reply = "listener"]
            /\ UNCHANGED <<pc, last>>
    /\ UNCHANGED <<s, status, late, mode, conn, run, exitCode, friendly>>

ListenerNext ==
    \/ \E m \in 0..MaxAttempts : ListenerConnect(m)
    \/ ConnectAttempt
    \/ ConnectGiveUp
    \/ ConnectReturn
    \/ StartListener
    \/ ListenerRecv
    \/ CmdSend
    \/ CmdRecv
    \/ CmdTimeout
    \/ ReplyArrives

ListenerSpec == Init /\ [][ListenerNext]_vars

----------------------------------------------------------------------------
(* Properties of connect *)

\* the transports of the set ts have all been closed
AllClosed(ts) == \A t \in ts : status[t] = "closed"

\* C1: while every attempt of a connect call fails, each transport opened by
\* one of its attempts is closed and is not the session's handle before the
\* next attempt starts, and when the call gives up it has made exactly
\* max_attempts attempts and left none of these transports open or held.
C1_FailedAttemptsClosed ==
    /\ (pc = "connecting" /\ conn.attempts > 0) =>
          /\ AllClosed(conn.opened)
          /\ s.websocket \notin conn.opened
          /\ s.websocket = NoSocket
    /\ (pc = "connect_done" /\ conn.result = "fail") =>
          /\ conn.attempts = conn.max_attempts
          /\ AllClosed(conn.opened)
          /\ s.websocket \notin conn.opened

\* a call gave up after three failed attempts, two of which opened a transport
C1_Witness ==
    /\ pc = "connect_done"
    /\ conn.result = "fail"
    /\ conn.attempts = 3
    /\ Cardinality(conn.opened) >= 2

\* C2: when the frame received by an attempt is a JSON object with code 200
\* and a client_id, connect returns success at that attempt, no later attempt
\* exists, the connected flag is true and the session identifier is the
\* client_id of that frame.
C2_ConnectSuccess ==
    (/\ conn.frame.kind = "object"
     /\ conn.frame.has_code /\ conn.frame.code = 200
     /\ conn.frame.has_client_id) =>
        /\ pc = "connect_done"
        /\ conn.result = "ok"
        /\ conn.attempts = conn.attempt
        /\ conn.attempt <= conn.max_attempts
        /\ s.connected
        /\ s.client_id = conn.frame.client_id
        /\ s.websocket # NoSocket
        /\ status[s.websocket] = "open"

\* connect succeeded at its second attempt, on a session that held another id
C2_Witness ==
    /\ pc = "connect_done"
    /\ conn.result = "ok"
    /\ conn.attempts = 2
    /\ conn.frame.client_id = "c2"

\* C3 as claimed: whenever connect returns failure the session is clean: not
\* connected, no session identifier, no transport handle.
C3_CleanAfterFailure ==
    (pc = "connect_done" /\ conn.result = "fail") =>
        /\ ~s.connected
        /\ s.client_id = None
        /\ s.websocket = NoSocket

----------------------------------------------------------------------------
(* Properties of send_command and disconnect *)

\* the session's transport is not open: there is no handle, or it is closed
TransportClosed == IF s.websocket = NoSocket THEN TRUE
                   ELSE status[s.websocket] = "closed"

\* C4: a send_command on a session whose connected flag is false or that has
\* no transport handle fails with the not-connected error, makes no transport
\* call, sends and receives no frame, and changes nothing of the session.
C4_NotConnectedNoIO ==
    [][(last'.op = "send_command" /\ (~s.connected \/ s.websocket = NoSocket)) =>
          /\ last'.err = "NotConnected"
          /\ ~last'.ok
          /\ last'.io = 0 /\ last'.sent = 0 /\ last'.recvd = 0
          /\ s' = s /\ status' = status /\ late' = late]_vars

\* send_command was refused on a session that still holds the handle of the
\* transport it disconnected
C4_Witness ==
    /\ last.op = "send_command"
    /\ last.err = "NotConnected"
    /\ ~s.connected
    /\ s.websocket # NoSocket

\* C5 as claimed: after a send_command that timed out the transport is closed
\* and the session is no longer connected.
C5_TimeoutClosesConnection ==
    (last.op = "send_command" /\ last.err = "Timeout") =>
        (~s.connected /\ TransportClosed)

\* C6 as claimed: disconnect never raises and leaves the connected flag
\* false, the session identifier absent and the transport closed.
C6_DisconnectClears ==
    last.op = "disconnect" =>
        /\ last.ok
        /\ ~s.connected
        /\ s.client_id = None
        /\ TransportClosed

\* C7: a disconnect that follows a disconnect changes nothing of the session
\* (flag, identifier, handle, state of the transports), and neither raises.
C7_DisconnectIdempotent ==
    [][(last.op = "disconnect" /\ last'.op = "disconnect") =>
          /\ s' = s
          /\ status' = status
          /\ last.ok /\ last'.ok]_vars

\* disconnect returned twice in a row on a session that had been connected
C7_Witness ==
    /\ last.op = "disconnect"
    /\ last.again
    /\ s.websocket # NoSocket
    /\ status[s.websocket] = "closed"

----------------------------------------------------------------------------
(* Properties of run and main *)

\* no transport at all is open
NothingOpen == \A t \in Transports : status[t] # "open"

\* C8 as claimed: a run call connects exactly once; after a successful
\* connect it dispatches to at most one operation and disconnects once before
\* it returns; after a failed connect it returns failure and sends nothing;
\* and when it returns the session is not connected and no transport is open.
C8_RunLifecycle ==
    last.op = "run" =>
        /\ run.connects = 1
        /\ run.dispatches <= 1
        /\ run.connect_ok => run.disconnects = 1
        /\ ~run.connect_ok => (~last.ok /\ run.sends = 0 /\ run.frames = 0)
        /\ ~s.connected
        /\ NothingOpen

\* C9 as claimed: when a send_command issued by run fails, run returns
\* failure and the process exits with status 1.
C9_CommandErrorIsFailure ==
    (last.op = "run" /\ run.failed) =>
        /\ ~last.ok
        /\ mode = "exited" => exitCode = 1

\* C10: a process started with a --command outside the four choices ends
\* with a non-zero exit status without any connect call, connection attempt
\* or transport opened, and without run being entered.
C10_UnknownCommandRejected ==
    (mode \in {"cli", "exited"} /\ run.command \notin
        {"get-info", "set-charge-mode", "get-charge-mode", "get-load-state"}) =>
        /\ mode = "exited"
        /\ exitCode = 2
        /\ run.connects = 0
        /\ conn = NoConn
        /\ \A t \in Transports : status[t] = "unopened"
        /\ last.op = "none"

\* the process ended on the command name "bogus"
C10_Witness ==
    /\ mode = "exited"
    /\ run.command = "bogus"
    /\ exitCode = 2

----------------------------------------------------------------------------
(* Properties of the device operations *)

\* the frame is a JSON object that carries the code 200
Code200(f) == f.kind = "object" /\ f.has_code /\ f.code = 200

\* C11: set_charge_mode(mode) makes exactly one send_command call, which
\* gives exactly one frame to the transport, {Action: setPropertyData, id: 35,
\* value: mode, mac: device id}; it returns true if and only if a reply was
\* received and carries the code 200, and it never raises.
C11_SetChargeMode ==
    (pc = "run_disconnect" /\ run.operation = "set_charge_mode") =>
        /\ run.sends = 1
        /\ Len(run.calls) = 1
        /\ run.calls[1].tx = 1
        /\ run.calls[1].wire = [Action |-> "setPropertyData", id |-> 35,
                                value |-> run.val.v, mac |-> MacAddress]
        /\ run.calls[1].recvd <= 1
        /\ run.result <=> (run.calls[1].recvd = 1 /\ Code200(run.calls[1].frame))
        /\ ~run.raised

\* set_charge_mode(1) returned false on a reply whose code is 500
C11_Witness ==
    /\ pc = "run_disconnect"
    /\ run.operation = "set_charge_mode"
    /\ run.val.v = 1
    /\ run.calls[1].recvd = 1
    /\ run.calls[1].frame.has_code
    /\ run.calls[1].frame.code = 500
    /\ ~run.result

\* the data payload of a reply frame as get_all_machine_info reads it
Payload(f) == IF f.kind = "object" /\ f.has_data THEN f.data ELSE << >>

\* res is cat ordered by ascending property_id with the records of equal id
\* in the order they have in cat
StablyOrdered(cat, res) ==
    /\ Len(res) = Len(cat)
    /\ \E p \in [1..Len(cat) -> 1..Len(cat)] :
          /\ \A i, j \in 1..Len(cat) : i # j => p[i] # p[j]
          /\ \A i \in 1..Len(cat) : res[i] = cat[p[i]]
          /\ \A i, j \in 1..Len(cat) : i < j =>
                \/ res[i].property_id < res[j].property_id
                \/ res[i].property_id = res[j].property_id /\ p[i] < p[j]

\* the send_command call did not return a reply: it sent nothing, consumed
\* nothing, or consumed a frame that is not JSON
QueryFailed(c) == c.tx = 0 \/ c.recvd = 0 \/ c.frame.kind = "text"

\* both queries of the get_all_machine_info call returned a JSON object or array
BothAnswered ==
    /\ Len(last.calls) = 2
    /\ \A i \in 1..2 : /\ ~QueryFailed(last.calls[i])
                        /\ last.calls[i].frame.kind \in {"object", "array"}

\* C12: when both queries succeed the list get_all_machine_info returns is a
\* permutation of the first payload followed by the second, ordered by
\* ascending property id, records of equal id keeping their relative order.
C12_MergeSorted ==
    (pc = "info_done" /\ BothAnswered) =>
        StablyOrdered(Payload(last.calls[1].frame) \o Payload(last.calls[2].frame),
                      last.data)

\* payloads with the ids [2] and [1] gave a list with the ids [1, 2]
C12_Witness ==
    /\ pc = "info_done"
    /\ BothAnswered
    /\ Len(Payload(last.calls[1].frame)) = 1
    /\ Payload(last.calls[1].frame)[1].property_id = 2
    /\ Len(Payload(last.calls[2].frame)) = 1
    /\ Payload(last.calls[2].frame)[1].property_id = 1
    /\ Len(last.data) = 2
    /\ last.data[1].property_id = 1
    /\ last.data[2].property_id = 2

\* two records of equal id, one from each payload, kept their order
C12_WitnessStable ==
    /\ pc = "info_done"
    /\ BothAnswered
    /\ Len(last.data) = 3
    /\ last.data[1].property_id = last.data[2].property_id
    /\ last.data[1] # last.data[2]

\* C13: when one of the two queries fails (not connected, timeout, transport
\* error, reply that is not JSON) get_all_machine_info returns the empty list
\* and raises nothing; the records of one query are never returned alone.
C13_AllOrNothing ==
    (pc = "info_done" /\ \E i \in 1..Len(last.calls) : QueryFailed(last.calls[i])) =>
        /\ last.data = << >>
        /\ last.ok
        /\ last.err = "none"

\* the first query returned two records and the second timed out
C13_Witness ==
    /\ pc = "info_done"
    /\ Len(last.calls) = 2
    /\ Len(Payload(last.calls[1].frame)) = 2
    /\ last.calls[2].tx = 1
    /\ last.calls[2].recvd = 0
    /\ last.data = << >>

\* the call was made on a session that is not connected
C13_WitnessNotConnected ==
    /\ pc = "info_done"
    /\ Len(last.calls) = 1
    /\ last.calls[1].tx = 0
    /\ last.data = << >>

----------------------------------------------------------------------------
(* Backoff of connect *)

\* C19: connect waits after a failed attempt exactly when that attempt is
\* not the last one allowed: after k failed attempts it has waited k times,
\* or max_attempts - 1 times when all attempts are used up; a call that
\* succeeds at attempt k has waited k - 1 times and does not wait after the
\* success; a call that gives up has made max_attempts attempts and
\* max_attempts - 1 waits, and no attempt and no wait when max_attempts <= 0.
C19_BackoffPlacement ==
    /\ pc = "connecting" =>
          conn.sleeps = IF conn.attempts < conn.max_attempts THEN conn.attempts
                        ELSE IF conn.max_attempts <= 0 THEN 0
                        ELSE conn.max_attempts - 1
    /\ (pc = "connect_done" /\ conn.result = "ok") =>
          conn.sleeps = conn.attempts - 1
    /\ (pc = "connect_done" /\ conn.result = "fail") =>
          IF conn.max_attempts <= 0
          THEN conn.attempts = 0 /\ conn.sleeps = 0
          ELSE conn.attempts = conn.max_attempts
               /\ conn.sleeps = conn.max_attempts - 1

\* a call with max_attempts = 3 gave up after two waits
C19_Witness ==
    /\ pc = "connect_done"
    /\ conn.result = "fail"
    /\ conn.max_attempts = 3
    /\ conn.attempts = 3
    /\ conn.sleeps = 2

\* a call with max_attempts = 0 gave up at once
C19_WitnessZero ==
    /\ pc = "connect_done"
    /\ conn.result = "fail"
    /\ conn.max_attempts = 0
    /\ conn.sleeps = 0

----------------------------------------------------------------------------
(* The command envelope *)

\* C20 as claimed: the frame a send_command call gives to the transport has
\* Action equal to the action argument, mac equal to the mac of params when
\* params has one and to the device's mac otherwise, and every other entry
\* of params unchanged; a call transmits at most one frame and consumes at
\* most one.
C20_Envelope ==
    pc = "send_done" =>
        /\ last.tx <= 1 /\ last.sent <= 1 /\ last.recvd <= 1
        /\ last.tx = 1 =>
              /\ last.wire["Action"] = last.action
              /\ last.wire["mac"] = IF "mac" \in DOMAIN last.params
                                    THEN last.params["mac"] ELSE MacAddress
              /\ \A k \in DOMAIN last.params \ {"Action", "mac"} :
                    k \in DOMAIN last.wire /\ last.wire[k] = last.params[k]

----------------------------------------------------------------------------
(* Properties of the interpreter *)

\* the definition of the item handed to the interpreter, and its raw value
TheDefinition == friendly.item.definition

TheRaw == friendly.item.value

\* the definition is a list that has an entry which is a dict with the title
\* "unit" or the Chinese unit marker and a non-empty value
HasUnitEntry ==
    /\ TheDefinition.kind = "list"
    /\ \E i \in 1..Len(TheDefinition.entries) :
         LET e == TheDefinition.entries[i]
         IN  /\ e.dict
             /\ e.title \in {Present(Txt("unit")), Present(Txt(UnitZh))}
             /\ e.value.k = "present" /\ e.value.v.t = "str" /\ e.value.v.s # ""

\* the value of the last such entry
RECURSIVE UnitOf(_, _)
UnitOf(entries, i) ==
    IF i = 0 THEN ""
    ELSE IF /\ entries[i].dict
            /\ entries[i].title \in {Present(Txt("unit")), Present(Txt(UnitZh))}
    THEN entries[i].value.v.s
    ELSE UnitOf(entries, i - 1)

\* C14 as claimed: for a definition whose entries include a unit entry with a
\* non-empty value the display is the raw value followed by the
\* degree-Celsius unit when the key is temperature, and "{raw_value} {unit}"
\* for every other key.
C14_UnitDisplay ==
    (friendly.returned /\ HasUnitEntry) =>
        friendly.display =
            IF friendly.item.unikey = "temperature" THEN str(TheRaw) \o " °C"
            ELSE str(TheRaw) \o " "
                 \o UnitOf(TheDefinition.entries, Len(TheDefinition.entries))

\* the key of the descriptor holds a title: a string that is not empty
HasTitle(field) == field.k = "present" /\ field.v.t = "str" /\ field.v.s # ""

\* the string form of the value of entry i of the definition
ValueText(i) ==
    LET f == TheDefinition.entries[i].value
    IN  IF f.k = "absent" \/ f.v.t = "none" THEN "None"
        ELSE IF f.v.t = "int" THEN ToString(f.v.n) ELSE f.v.s

\* the string form of the raw value
RawText == IF TheRaw.t = "none" THEN "None"
           ELSE IF TheRaw.t = "int" THEN ToString(TheRaw.n) ELSE TheRaw.s

\* the definition is a list of option descriptors
OptionList ==
    /\ TheDefinition.kind = "list"
    /\ \A i \in 1..Len(TheDefinition.entries) : TheDefinition.entries[i].dict

\* it is the binary pair: two descriptors whose values are "0" and "1"
BinaryPair ==
    /\ OptionList
    /\ Len(TheDefinition.entries) = 2
    /\ {ValueText(1), ValueText(2)} = {"0", "1"}

\* the entries whose value matches the raw value
Matching == {i \in 1..Len(TheDefinition.entries) : ValueText(i) = RawText}

FirstMatching == CHOOSE i \in Matching : \A j \in Matching : i <= j

\* C15: for the binary pair and a raw value that matches one of the two
\* descriptors the display is "{status} ({raw_value})", status being the
\* English title of the matching descriptor, else its generic title, else
\* "ON" when the raw value is 1 or "1" and "OFF" otherwise.
C15_BinaryStatus ==
    (friendly.returned /\ BinaryPair /\ Matching # {}) =>
        LET d == TheDefinition.entries[FirstMatching]
            label == IF HasTitle(d.en_title) THEN d.en_title.v.s
                     ELSE IF HasTitle(d.title) THEN d.title.v.s
                     ELSE IF RawText = "1" THEN "ON" ELSE "OFF"
        IN  friendly.display = label \o " (" \o RawText \o ")"

\* raw 1 on the pair with the English titles OFF and ON gave "ON (1)"
C15_Witness ==
    /\ friendly.returned
    /\ BinaryPair
    /\ TheRaw = Num(1)
    /\ TheDefinition.entries[1].en_title = Present(Txt("OFF"))
    /\ TheDefinition.entries[2].en_title = Present(Txt("ON"))
    /\ friendly.display = "ON (1)"

\* raw 0 on a pair without titles gave "OFF (0)"
C15_WitnessDefault ==
    /\ friendly.returned
    /\ BinaryPair
    /\ TheRaw = Num(0)
    /\ \A i \in 1..2 : /\ TheDefinition.entries[i].en_title = Absent
                       /\ TheDefinition.entries[i].title = Absent
    /\ friendly.display = "OFF (0)"

\* C16 as claimed: for a list of option descriptors that is not the binary
\* pair, when a descriptor matches the raw value the display is
\* "{title} ({raw_value})" with the English title of the first matching
\* descriptor, or its generic title when it has no English title; when none
\* matches, the display is the string form of the raw value.  (Stated for
\* first matching descriptors that have one of the two titles.)
C16_GeneralEnum ==
    (friendly.returned /\ OptionList /\ ~BinaryPair) =>
        IF Matching = {} THEN friendly.display = RawText
        ELSE LET d == TheDefinition.entries[FirstMatching]
             IN  /\ HasTitle(d.en_title) =>
                       friendly.display = d.en_title.v.s \o " (" \o RawText \o ")"
                 /\ (~HasTitle(d.en_title) /\ HasTitle(d.title)) =>
                       friendly.display = d.title.v.s \o " (" \o RawText \o ")"

\* C17: when the item has no definition, or its definition is not JSON, the
\* display is the string form of the raw value, whatever the raw value and
\* the key.
C17_FallbackRaw ==
    (friendly.returned /\ TheDefinition.kind \in {"absent", "empty", "text"}) =>
        friendly.display = RawText

\* definitions that are not JSON gave "25" for the raw value 25
C17_Witness ==
    /\ friendly.returned
    /\ TheDefinition.kind = "text"
    /\ TheRaw = Num(25)
    /\ friendly.item.unikey = "temperature"
    /\ friendly.display = "25"

----------------------------------------------------------------------------
(* The listener and the commands *)

\* C18 as claimed: while the message_listener task runs on the session that
\* issues commands, the listener and a send_command in flight never both
\* wait in recv, and the reply to a command is consumed by that send_command
\* call, never by the listener.
C18_SingleReader ==
    /\ ~(listener.pc = "recv" /\ pc = "cmd_recv")
    /\ listener.reply # "listener"

----------------------------------------------------------------------------
(* Consistency of the session *)

\* C21 as claimed: whenever a caller of connect, send_command and disconnect
\* has control, a session whose connected flag is true holds a transport
\* handle and a session identifier.
C21_SessionConsistent ==
    (pc = "idle" /\ mode \in {"init", "api"} /\ last.op # "run" /\ s.connected) =>
        /\ s.websocket # NoSocket
        /\ s.client_id # None

====
